---- MODULE Spec2Model ----
(***************************************************************************)
(* Model of guild_log_analyzer.py: the line parser (LOG_PATTERN,           *)
(* parse_log), the classifier (clean_data, categorize_event) and the       *)
(* application state (GuildLogAnalyzerApp: df, filtered_df and the filter  *)
(* widgets) with its handlers load_file, load_from_url, apply_filters and  *)
(* export_to_csv.                                                          *)
(*                                                                         *)
(* A string is a sequence of tokens.  A token is a word, a punctuation     *)
(* mark or one whitespace character; `in` and str.contains are contiguous  *)
(* sub-sequence search over tokens, str.strip removes whitespace tokens at *)
(* both ends.  A text is a sequence of raw lines (the text split at its    *)
(* newlines).                                                              *)
(***************************************************************************)
EXTENDS Integers, Sequences, FiniteSets, TLC

VARIABLES df, filtered_df, widgets, last, input, output, pc

vars == <<df, filtered_df, widgets, last, input, output, pc>>

(***************************************************************************)
(* Bounds of the model.                                                    *)
(***************************************************************************)
\* longest text (in lines) handed to parse_log on its own
MaxTextLines == 3
\* longest log file (in lines) loaded by the application
MaxFileLines == 2
\* longest event string (in phrases) handed to categorize_event on its own
MaxPhrases == 2

(***************************************************************************)
(* Strings.                                                                *)
(***************************************************************************)
SP == " "

RECURSIVE LStrip(_)
LStrip(s) == IF s # <<>> /\ Head(s) = SP THEN LStrip(Tail(s)) ELSE s

RECURSIVE RStrip(_)
RStrip(s) ==
    IF s # <<>> /\ s[Len(s)] = SP THEN RStrip(SubSeq(s, 1, Len(s) - 1)) ELSE s

\* str.strip()
Strip(s) == RStrip(LStrip(s))

\* needle in hay
Contains(hay, needle) ==
    \E i \in 1..(Len(hay) - Len(needle) + 1) :
        SubSeq(hay, i, i + Len(needle) - 1) = needle

\* index of the first occurrence of token t in s, 0 when there is none
IndexOf(s, t) ==
    IF \E i \in 1..Len(s) : s[i] = t
    THEN CHOOSE i \in 1..Len(s) : s[i] = t /\ \A j \in 1..(i - 1) : s[j] # t
    ELSE 0

\* str.lower() of one token (the tokens of the model that hold upper case)
LowerTok(t) ==
    CASE t = "Aria" -> "aria"
      [] t = "Bob" -> "bob"
      [] t = "Cara" -> "cara"
      [] t = "Nightshade" -> "nightshade"
      [] t = "Dragon" -> "dragon"
      [] t = "JOINED" -> "joined"
      [] t = "PROMOTED" -> "promoted"
      [] t = "DEMOTED" -> "demoted"
      [] t = "Left" -> "left"
      [] t = "Leveled" -> "leveled"
      [] t = "LVL:" -> "lvl:"
      [] t = "Officer" -> "officer"
      [] t = "Death" -> "death"
      [] t = "Level" -> "level"
      [] t = "Up" -> "up"
      [] t = "Join" -> "join"
      [] t = "Leave" -> "leave"
      [] t = "Promotion" -> "promotion"
      [] t = "Demotion" -> "demotion"
      [] t = "Online" -> "online"
      [] t = "Other" -> "other"
      [] t = "AM" -> "am"
      [] t = "PM" -> "pm"
      [] OTHER -> t

Lower(s) == [i \in 1..Len(s) |-> LowerTok(s[i])]

\* Series.str.contains(needle, case=False)
ContainsNoCase(hay, needle) == Contains(Lower(hay), Lower(needle))

(***************************************************************************)
(* Timestamps.  The timestamp token of a line is looked up in a table of   *)
(* its fields; mon is the month number of the abbreviation (0 when it is   *)
(* none), ap the am/pm marker ("" when the token has none).                *)
(***************************************************************************)
TsFields(t) ==
    CASE t = "3 Jan '24 09:15pm" -> [day |-> 3, mon |-> 1, hh |-> 9, mi |-> 15, ap |-> "pm"]
      [] t = "3 Jan '24 02:00pm" -> [day |-> 3, mon |-> 1, hh |-> 2, mi |-> 0, ap |-> "pm"]
      [] t = "45 Jan '24 09:15pm" -> [day |-> 45, mon |-> 1, hh |-> 9, mi |-> 15, ap |-> "pm"]
      [] t = "3 Jan '24 09:15" -> [day |-> 3, mon |-> 1, hh |-> 9, mi |-> 15, ap |-> ""]

TimestampTokens ==
    {"3 Jan '24 09:15pm", "3 Jan '24 02:00pm", "45 Jan '24 09:15pm", "3 Jan '24 09:15"}

\* \d{1,2} \w{3} '\d{2} \d{2}:\d{2}[ap]m
TimestampPattern(t) == t \in TimestampTokens /\ TsFields(t).ap \in {"am", "pm"}

\* datetime.strptime(timestamp_str, "%d %b '%y %I:%M%p") raises ValueError
StrptimeFails(t) ==
    LET f == TsFields(t) IN
    ~(/\ f.day \in 1..31
      /\ f.mon \in 1..12
      /\ f.hh \in 1..12
      /\ f.mi \in 0..59
      /\ f.ap \in {"am", "pm"})

\* minutes since 2024-01-01 00:00 of the parsed (naive) time
StrptimeMinutes(t) ==
    LET f == TsFields(t) IN
    (f.day - 1) * 1440 + ((f.hh % 12) + (IF f.ap = "pm" THEN 12 ELSE 0)) * 60 + f.mi

\* pytz.utc.localize(timestamp).astimezone(US/Eastern): January is EST, UTC-5
ToEastern(m) == m - 300

\* timestamp.strftime('%Y-%m-%d %I:%M:%S %p'): the fixed-width fields in order
Strftime(m) ==
    LET h24 == (m % 1440) \div 60 IN
    << 2024, 1, (m \div 1440) + 1,
       IF h24 % 12 = 0 THEN 12 ELSE h24 % 12,
       m % 60, 0,
       IF h24 < 12 THEN "AM" ELSE "PM" >>

(***************************************************************************)
(* LOG_PATTERN.                                                            *)
(***************************************************************************)
\* \d+\)
OrdinalTokens == {"1)", "2)", "3)", "4)", "5)", "6)", "7)"}

\* (has|is|matches|PROMOTED|DEMOTED|JOINED|Left|Come|died)
LeadWords ==
    {"has", "is", "matches", "PROMOTED", "DEMOTED", "JOINED", "Left", "Come", "died"}

\* length of the run of whitespace that starts at index i of s
RECURSIVE RunLen(_, _)
RunLen(s, i) == IF i > Len(s) \/ s[i] # SP THEN 0 ELSE 1 + RunLen(s, i + 1)

\* ^\d+\)\s+(?P<timestamp>...)\s+: matched as a prefix of s; colon is the
\* index of the ':' (0 when the prefix does not match)
PrefixMatch(s) ==
    LET sp1 == RunLen(s, 2)
        t == 2 + sp1
        sp2 == RunLen(s, t + 1)
        c == t + 1 + sp2
    IN IF /\ Len(s) >= 1 /\ s[1] \in OrdinalTokens
          /\ sp1 >= 1
          /\ t <= Len(s) /\ TimestampPattern(s[t])
          /\ sp2 >= 1
          /\ c <= Len(s) /\ s[c] = ":"
       THEN [ts |-> t, colon |-> c]
       ELSE [ts |-> 0, colon |-> 0]

\* \s+(?P<player>.+?)\s+(?P<action>(lead word)\s.+)$ after the ':' at index c:
\* the pairs <<w, n>> of a whitespace run of w tokens after the ':' and a
\* player of n tokens for which the rest of the line matches
SplitCandidates(s, c) ==
    { x \in (1..RunLen(s, c + 1)) \X (1..Len(s)) :
        LET ps == c + x[1] + 1          \* first token of the player
            e == ps + x[2]              \* first token after the player
            q == e + RunLen(s, e)       \* first token after the \s+
        IN /\ e <= Len(s)
           /\ RunLen(s, e) >= 1
           /\ q + 2 <= Len(s)
           /\ s[q] \in LeadWords
           /\ s[q + 1] = SP }

\* the backtracking order: \s+ after the ':' is greedy (longest run first),
\* the player is non-greedy (shortest first)
FirstSplit(cands) ==
    CHOOSE x \in cands :
        \A y \in cands : x[1] > y[1] \/ (x[1] = y[1] /\ x[2] <= y[2])

\* LOG_PATTERN.match(line): the groups of the match, matched = FALSE for None
LOG_PATTERN(line) ==
    LET p == PrefixMatch(line)
        cands == IF p.colon = 0 THEN {} ELSE SplitCandidates(line, p.colon)
    IN IF cands = {}
       THEN [matched |-> FALSE, timestamp |-> "", player |-> <<>>, action |-> <<>>]
       ELSE LET x == FirstSplit(cands)
                ps == p.colon + x[1] + 1
                e == ps + x[2]
                q == e + RunLen(line, e)
            IN [matched |-> TRUE,
                timestamp |-> line[p.ts],
                player |-> SubSeq(line, ps, e - 1),
                action |-> SubSeq(line, q, Len(line))]

(***************************************************************************)
(* parse_log.                                                              *)
(***************************************************************************)
IsBlank(line) == Strip(line) = <<>>

RECURSIVE DropBlankHead(_)
DropBlankHead(text) ==
    IF text # <<>> /\ IsBlank(Head(text)) THEN DropBlankHead(Tail(text)) ELSE text

RECURSIVE DropBlankTail(_)
DropBlankTail(text) ==
    IF text # <<>> /\ IsBlank(text[Len(text)])
    THEN DropBlankTail(SubSeq(text, 1, Len(text) - 1))
    ELSE text

\* file_content.strip().splitlines()
StripSplitLines(text) ==
    LET t == DropBlankTail(DropBlankHead(text)) IN
    [i \in 1..Len(t) |->
        IF i = 1 /\ i = Len(t) THEN Strip(t[i])
        ELSE IF i = 1 THEN LStrip(t[i])
        ELSE IF i = Len(t) THEN RStrip(t[i])
        ELSE t[i]]

\* the body of the loop for one matching line: the record appended to data
LineRecord(m) ==
    LET semi == IndexOf(m.action, ";")
        event_type == IF semi > 0 THEN SubSeq(m.action, 1, semi - 1) ELSE m.action
        details == IF semi > 0 THEN SubSeq(m.action, semi + 1, Len(m.action)) ELSE <<>>
    IN [Timestamp |-> IF StrptimeFails(m.timestamp)
                      THEN <<>>
                      ELSE Strftime(ToEastern(StrptimeMinutes(m.timestamp))),
        Player |-> Strip(m.player),
        Event |-> Strip(event_type),
        Details |-> Strip(details)]

\* the warnings logged for one line
LineWarnings(line, m) ==
    IF ~m.matched THEN << [kind |-> "skipped", line |-> line] >>
    ELSE IF StrptimeFails(m.timestamp) THEN << [kind |-> "timestamp", line |-> line] >>
    ELSE <<>>

RECURSIVE ParseLinesUntilSkip(_, _)
ParseLinesUntilSkip(lines, acc) ==
    IF lines = <<>> THEN acc
    ELSE LET line == Strip(Head(lines))
             m == LOG_PATTERN(line)
         IN IF ~m.matched
            THEN [data |-> acc.data, warnings |-> acc.warnings \o LineWarnings(line, m)]
            ELSE ParseLinesUntilSkip(Tail(lines),
                    [data |-> Append(acc.data, LineRecord(m)),
                     warnings |-> acc.warnings \o LineWarnings(line, m)])

RECURSIVE ParseLines(_, _)
ParseLines(lines, acc) ==
    IF lines = <<>> THEN acc
    ELSE LET line == Strip(Head(lines))
             m == LOG_PATTERN(line)
         IN ParseLines(Tail(lines),
                [data |-> IF m.matched THEN Append(acc.data, LineRecord(m)) ELSE acc.data,
                 warnings |-> acc.warnings \o LineWarnings(line, m)])

\* parse_log(file_content): the rows of the returned frame and the warnings
\* logged on the way.  No step of the loop raises on a text, so the
\* except branch (an empty frame) is not taken.
parse_log(file_content) ==
    ParseLines(StripSplitLines(file_content), [data |-> <<>>, warnings |-> <<>>])

(***************************************************************************)
(* clean_data.                                                             *)
(***************************************************************************)
\* the words of a phrase, one whitespace between them
Words(ws) ==
    [i \in 1..(2 * Len(ws) - 1) |-> IF i % 2 = 1 THEN ws[(i + 1) \div 2] ELSE SP]

\* \d+ tokens and their values
NumberValue(t) ==
    CASE t = "7" -> 7
      [] t = "12" -> 12
      [] t = "42" -> 42

NumberTokens == {"7", "12", "42"}

\* NaN in the Level column
NoLevel == -1

\* Series.str.extract(r'LVL: (\d+)') then pd.to_numeric(errors='coerce')
ExtractLevel(event_str) ==
    LET hits == { i \in 1..(Len(event_str) - 2) :
                    /\ event_str[i] = "LVL:"
                    /\ event_str[i + 1] = SP
                    /\ event_str[i + 2] \in NumberTokens }
    IN IF hits = {} THEN NoLevel
       ELSE NumberValue(event_str[(CHOOSE i \in hits : \A j \in hits : i <= j) + 2])

categorize_event_swapped(event_str) ==
    IF Contains(event_str, Words(<<"Leveled", "to">>)) THEN <<"Level", SP, "Up">>
    ELSE IF Contains(event_str, Words(<<"Left", "the", "guild">>))
            \/ Contains(event_str, Words(<<"is", "no", "longer", "in", "the", "Guild">>))
    THEN <<"Leave">>
    ELSE IF Contains(event_str, Words(<<"has", "died", "at", "level">>))
            \/ Contains(event_str, Words(<<"has", "died">>))
            \/ (Contains(event_str, Words(<<"has", "Left", "the", "guild">>))
                /\ Contains(event_str, <<"[D]">>))
    THEN <<"Death">>
    ELSE IF Contains(event_str, Words(<<"JOINED", "the", "guild">>))
            \/ Contains(event_str, Words(<<"has", "JOINED", "the", "guild">>))
    THEN <<"Join">>
    ELSE IF Contains(event_str, <<"PROMOTED">>) THEN <<"Promotion">>
    ELSE IF Contains(event_str, <<"DEMOTED">>) THEN <<"Demotion">>
    ELSE IF Contains(event_str, Words(<<"Come", "ONLINE", "after", "being", "INACTIVE">>))
    THEN <<"Online">>
    ELSE <<"Other">>

categorize_event(event_str) ==
    IF Contains(event_str, Words(<<"has", "died", "at", "level">>))
       \/ Contains(event_str, Words(<<"has", "died">>))
       \/ (Contains(event_str, Words(<<"has", "Left", "the", "guild">>))
           /\ Contains(event_str, <<"[D]">>))
    THEN <<"Death">>
    ELSE IF Contains(event_str, Words(<<"Leveled", "to">>)) THEN <<"Level", SP, "Up">>
    ELSE IF Contains(event_str, Words(<<"JOINED", "the", "guild">>))
            \/ Contains(event_str, Words(<<"has", "JOINED", "the", "guild">>))
    THEN <<"Join">>
    ELSE IF Contains(event_str, Words(<<"Left", "the", "guild">>))
            \/ Contains(event_str, Words(<<"is", "no", "longer", "in", "the", "Guild">>))
    THEN <<"Leave">>
    ELSE IF Contains(event_str, <<"PROMOTED">>) THEN <<"Promotion">>
    ELSE IF Contains(event_str, <<"DEMOTED">>) THEN <<"Demotion">>
    ELSE IF Contains(event_str, Words(<<"Come", "ONLINE", "after", "being", "INACTIVE">>))
    THEN <<"Online">>
    ELSE <<"Other">>

\* clean_data(df): the rows with their Level and Event Type columns
clean_data(rows) ==
    [i \in 1..Len(rows) |->
        [Timestamp |-> rows[i].Timestamp,
         Player |-> rows[i].Player,
         Event |-> rows[i].Event,
         Details |-> rows[i].Details,
         Level |-> ExtractLevel(rows[i].Event),
         EventType |-> categorize_event(rows[i].Event)]]

(***************************************************************************)
(* Inputs of the parser: raw lines of a log text.                          *)
(***************************************************************************)
LinePrefix(ord, ts) == <<ord, SP, ts, SP, ":", SP>>

\* 1) 3 Jan '24 09:15pm : Aria Nightshade has died at level 42; slain by Dragon
LineDeath ==
    LinePrefix("1)", "3 Jan '24 09:15pm")
        \o Words(<<"Aria", "Nightshade", "has", "died", "at", "level", "42">>)
        \o <<";", SP>> \o Words(<<"slain", "by", "Dragon">>)

\* 2) 3 Jan '24 09:15 : Aria has died            (no am/pm marker)
LineNoAmPm == LinePrefix("2)", "3 Jan '24 09:15") \o Words(<<"Aria", "has", "died">>)

\* 3) 45 Jan '24 09:15pm : Cara has Leveled to LVL: 12       (no such day)
LineBadDay ==
    LinePrefix("3)", "45 Jan '24 09:15pm")
        \o Words(<<"Cara", "has", "Leveled", "to", "LVL:", "12">>)

\* 4) 3 Jan '24 09:15pm :   has died     (three blanks and no player name)
LineNoName ==
    LinePrefix("4)", "3 Jan '24 09:15pm") \o <<SP, SP>> \o Words(<<"has", "died">>)

\* " 5) 3 Jan '24 02:00pm : Bob has JOINED the guild LVL: 7 "
LineJoinPadded ==
    <<SP>> \o LinePrefix("5)", "3 Jan '24 02:00pm")
        \o Words(<<"Bob", "has", "JOINED", "the", "guild", "LVL:", "7">>) \o <<SP>>

\* a line that is no log entry
LineGarbage == Words(<<"Guild", "log">>)

\* an empty line
LineBlank == <<>>

LogLines ==
    {LineDeath, LineNoAmPm, LineBadDay, LineNoName, LineJoinPadded, LineGarbage,
     LineBlank}

SeqsUpTo(S, n) == UNION {[1..k -> S] : k \in 0..n}

Texts == SeqsUpTo(LogLines, MaxTextLines)

(***************************************************************************)
(* Inputs of the classifier: event strings made of the phrases the rules   *)
(* look for.                                                               *)
(***************************************************************************)
Phrases ==
    {Words(<<"has", "died", "at", "level", "42">>),
     Words(<<"has", "died">>),
     Words(<<"has", "Left", "the", "guild">>),
     <<"[D]">>,
     Words(<<"has", "Leveled", "to", "LVL:", "12">>),
     Words(<<"has", "JOINED", "the", "guild">>),
     Words(<<"JOINED", "the", "guild">>),
     Words(<<"is", "no", "longer", "in", "the", "Guild">>),
     Words(<<"PROMOTED", "to", "Officer">>),
     Words(<<"DEMOTED", "to", "Officer">>),
     Words(<<"has", "Come", "ONLINE", "after", "being", "INACTIVE">>),
     Words(<<"matches", "the", "roster">>)}

RECURSIVE JoinPhrases(_)
JoinPhrases(ps) ==
    IF ps = <<>> THEN <<>>
    ELSE IF Len(ps) = 1 THEN ps[1]
    ELSE ps[1] \o <<SP>> \o JoinPhrases(Tail(ps))

EventStrings == {JoinPhrases(ps) : ps \in SeqsUpTo(Phrases, MaxPhrases)}

(***************************************************************************)
(* The parser and the classifier on their own: the input is drawn in the   *)
(* initial state and the function is applied to it.                        *)
(***************************************************************************)
\* the entries and comboboxes of the filter frame, as create_widgets leaves them
EmptyWidgets ==
    [player |-> <<>>, event_type |-> <<>>, start_date |-> "", end_date |-> "",
     find |-> <<>>, sort_by |-> ""]

\* GuildLogAnalyzerApp.__init__
AppInit ==
    /\ df = <<>>
    /\ filtered_df = <<>>
    /\ widgets = EmptyWidgets
    /\ last = [op |-> "__init__", outcome |-> "none"]

InitParse ==
    /\ AppInit
    /\ input \in Texts
    /\ output = [data |-> <<>>, warnings |-> <<>>]
    /\ pc = "parse_log"

\* parse_log(file_content)
ParseLog ==
    /\ pc = "parse_log"
    /\ output' = parse_log(input)
    /\ pc' = "clean_data"
    /\ UNCHANGED <<df, filtered_df, widgets, last, input>>

\* clean_data(df) on the frame parse_log returned
CleanData ==
    /\ pc = "clean_data"
    /\ output' = [data |-> clean_data(output.data), warnings |-> output.warnings]
    /\ pc' = "done"
    /\ UNCHANGED <<df, filtered_df, widgets, last, input>>

NextParse == ParseLog \/ CleanData

SpecParse == InitParse /\ [][NextParse]_vars

InitCategorize ==
    /\ AppInit
    /\ input \in EventStrings
    /\ output = <<>>
    /\ pc = "categorize_event"

\* categorize_event(event_str)
CategorizeEvent ==
    /\ pc = "categorize_event"
    /\ output' = categorize_event(input)
    /\ pc' = "done"
    /\ UNCHANGED <<df, filtered_df, widgets, last, input>>

NextCategorize == CategorizeEvent

SpecCategorize == InitCategorize /\ [][NextCategorize]_vars

(***************************************************************************)
(* Values of the Timestamp column.  parse_log stores the formatted string  *)
(* (the seven fields of Strftime, <<>> for ''); the date filter of         *)
(* apply_filters replaces the column of the view by datetimes              *)
(* (<<Y, M, D, H, M, S, "">>, <<"NaT">> for NaT).                          *)
(***************************************************************************)
NaT == <<"NaT">>

IsDatetime(ts) == Len(ts) = 7 /\ ts[7] = ""

\* pd.to_datetime of one formatted timestamp string
ToDatetime(ts) ==
    IF ts = <<>> THEN NaT
    ELSE IF Len(ts) # 7 \/ ts[7] = "" THEN ts
    ELSE << ts[1], ts[2], ts[3],
            (ts[4] % 12) + (IF ts[7] = "PM" THEN 12 ELSE 0),
            ts[5], ts[6], "" >>

\* the date strings typed into the start and end date entries
DateFields(str) ==
    CASE str = "2024-01-03" -> <<2024, 1, 3>>
      [] str = "2024-01-05" -> <<2024, 1, 5>>
      [] OTHER -> <<>>

\* pd.to_datetime(date_str) raises ValueError
DateParseFails(str) == DateFields(str) = <<>>

\* pd.to_datetime(date_str): midnight of that day
DateToDatetime(str) == DateFields(str) \o <<0, 0, 0, "">>

\* a < b for sequences of numbers, as for strings: position by position,
\* a proper prefix first
RECURSIVE NumSeqLess(_, _)
NumSeqLess(a, b) ==
    IF b = <<>> THEN FALSE
    ELSE IF a = <<>> THEN TRUE
    ELSE IF Head(a) # Head(b) THEN Head(a) < Head(b)
    ELSE NumSeqLess(Tail(a), Tail(b))

\* Timestamp <= other, both datetimes; a comparison with NaT is False
DatetimeLeq(a, b) ==
    /\ a # NaT
    /\ b # NaT
    /\ ~NumSeqLess(SubSeq(b, 1, 6), SubSeq(a, 1, 6))

(***************************************************************************)
(* Rows as text.                                                           *)
(***************************************************************************)
Pad2(n) == IF n < 10 THEN "0" \o ToString(n) ELSE ToString(n)

\* str() of a value of the Timestamp column
TimestampText(ts) ==
    IF ts = <<>> THEN <<>>
    ELSE IF ts = NaT THEN NaT
    ELSE LET date == ToString(ts[1]) \o "-" \o Pad2(ts[2]) \o "-" \o Pad2(ts[3])
             time == Pad2(ts[4]) \o ":" \o Pad2(ts[5]) \o ":" \o Pad2(ts[6])
         IN IF ts[7] = "" THEN <<date, SP, time>> ELSE <<date, SP, time, SP, ts[7]>>

\* str() of a value of the Level column (a float)
LevelText(level) ==
    IF level = NoLevel THEN <<"nan">> ELSE <<ToString(level) \o ".0">>

\* row.astype(str)
RowText(row) ==
    << TimestampText(row.Timestamp), row.Player, row.Event, row.Details,
       LevelText(row.Level), row.EventType >>

\* the tokens of the Player and Event Type columns in code point order
CodepointOrder ==
    << SP, "Aria", "Bob", "Cara", "Death", "Demotion", "Join", "Leave", "Level",
       "Nightshade", "Online", "Other", "Promotion", "Up", "aria" >>

TokRank(t) == CHOOSE i \in 1..Len(CodepointOrder) : CodepointOrder[i] = t

TextKey(s) == [i \in 1..Len(s) |-> TokRank(s[i])]

(***************************************************************************)
(* DataFrame.sort_values(by=sort_by): ascending, NaN and NaT last.         *)
(***************************************************************************)
Columns == {"Timestamp", "Player", "Event", "Details", "Level", "Event Type"}

\* the value of the sort column is NaN or NaT
IsNullKey(row, by) ==
    CASE by = "Timestamp" -> row.Timestamp = NaT
      [] by = "Level" -> row.Level = NoLevel
      [] OTHER -> FALSE

\* the value of the sort column as a sequence of numbers that orders as the
\* column's values do: strings by code point, numbers and datetimes by value
SortKey(row, by) ==
    CASE by = "Timestamp" ->
            IF row.Timestamp = <<>> THEN <<>>
            ELSE IF IsDatetime(row.Timestamp) THEN SubSeq(row.Timestamp, 1, 6)
            ELSE SubSeq(row.Timestamp, 1, 6)
                    \o << IF row.Timestamp[7] = "PM" THEN 1 ELSE 0 >>
      [] by = "Player" -> TextKey(row.Player)
      [] by = "Event Type" -> TextKey(row.EventType)
      [] by = "Level" -> <<row.Level>>

\* row goes after every row already placed whose key is not greater
InsertRow(sorted, row, by) ==
    LET n == Cardinality({ i \in 1..Len(sorted) :
                             ~NumSeqLess(SortKey(row, by), SortKey(sorted[i], by)) })
    IN SubSeq(sorted, 1, n) \o <<row>> \o SubSeq(sorted, n + 1, Len(sorted))

RECURSIVE InsertionSort(_, _, _)
InsertionSort(rows, sorted, by) ==
    IF rows = <<>> THEN sorted
    ELSE InsertionSort(Tail(rows), InsertRow(sorted, Head(rows), by), by)

\* sort_values on a frame of a few rows: the argsort of so small an array is
\* an insertion sort, which keeps rows of equal key in their order
sort_values(rows, by) ==
    InsertionSort(SelectSeq(rows, LAMBDA r : ~IsNullKey(r, by)), <<>>, by)
        \o SelectSeq(rows, LAMBDA r : IsNullKey(r, by))

(***************************************************************************)
(* GuildLogAnalyzerApp.apply_filters.  A frame is its rows and whether it  *)
(* is the object self.df refers to: a column assignment on that object is  *)
(* an assignment to self.df.                                               *)
(***************************************************************************)
DfAlias(d) == [rows |-> d, is_df |-> TRUE]

\* self.df.copy()
DfCopy(d) == [rows |-> d, is_df |-> FALSE]

\* frame[mask]: a new frame of the rows the mask keeps
Masked(frame, Keep(_)) == [rows |-> SelectSeq(frame.rows, Keep), is_df |-> FALSE]

\* apply_filters on self.df = d, self.filtered_df = f and the widget values w:
\* the two frames when it returns, and how it returned
apply_filters(d, f, w) ==
    IF d = <<>> THEN [df |-> d, filtered_df |-> f, outcome |-> "no_data"]
    ELSE
    LET player_name == Strip(w.player)
        event_type == Strip(w.event_type)
        find_string == Strip(w.find)
        v0 == DfCopy(d)
        v1 == IF player_name # <<>>
              THEN Masked(v0, LAMBDA r : ContainsNoCase(r.Player, player_name))
              ELSE v0
        v2 == IF event_type # <<>>
              THEN Masked(v1, LAMBDA r : ContainsNoCase(r.EventType, event_type))
              ELSE v1
        dated == w.start_date # "" /\ w.end_date # ""
        bad_date == dated /\ (DateParseFails(w.start_date) \/ DateParseFails(w.end_date))
        \* self.filtered_df['Timestamp'] = pd.to_datetime(self.filtered_df['Timestamp'])
        converted ==
            [rows |-> [i \in 1..Len(v2.rows) |->
                          [v2.rows[i] EXCEPT !.Timestamp = ToDatetime(@)]],
             is_df |-> v2.is_df]
        d1 == IF dated /\ ~bad_date /\ converted.is_df THEN converted.rows ELSE d
        v3 == IF dated
              THEN Masked(converted,
                     LAMBDA r : /\ DatetimeLeq(DateToDatetime(w.start_date), r.Timestamp)
                                /\ DatetimeLeq(r.Timestamp, DateToDatetime(w.end_date)))
              ELSE v2
        v4 == IF find_string # <<>>
              THEN Masked(v3,
                     LAMBDA r : \E k \in 1..Len(RowText(r)) :
                                    ContainsNoCase(RowText(r)[k], find_string))
              ELSE v3
        bad_sort == w.sort_by # "" /\ w.sort_by \notin Columns
        v5 == IF w.sort_by # "" THEN sort_values(v4.rows, w.sort_by) ELSE v4.rows
    IN IF bad_date THEN [df |-> d, filtered_df |-> v2.rows, outcome |-> "bad_date"]
       ELSE IF bad_sort THEN [df |-> d1, filtered_df |-> v4.rows, outcome |-> "bad_sort"]
       ELSE [df |-> d1, filtered_df |-> v5, outcome |-> "displayed"]

(***************************************************************************)
(* Inputs of the application: the log files and URL bodies it loads, and   *)
(* the values typed or chosen in the filter widgets.                       *)
(***************************************************************************)
EntryLines == {LineDeath, LineJoinPadded, LineBadDay}

\* the texts loaded: log entries, and a text that holds no log entry
FileContents == SeqsUpTo(EntryLines, MaxFileLines) \cup {<<LineGarbage>>}

\* every text with the frame parse_log makes of it and the frame clean_data
\* makes of that one (computed once; \o fixes the rows of a frame)
LoadedFiles ==
    { [text |-> c,
       parsed |-> parse_log(c).data,
       cleaned |-> clean_data(parse_log(c).data) \o <<>>] : c \in FileContents }

\* the sort combobox is read-only: its value is one of the listed ones
SortChoices == {"", "Timestamp", "Player", "Event Type", "Level"}

\* the event type combobox is read-only too
EventTypeChoices == {<<>>, <<"Death">>}

PlayerEntries == {<<>>, <<"aria">>}

FindEntries == {<<>>, <<"dragon">>}

\* the start and end date entries: none, a range, a date that is none
DateEntries ==
    { <<"", "">>, <<"2024-01-03", "2024-01-03">>, <<"2024-13-45", "2024-01-03">> }

\* the widget values of one press of Apply Filters: filters without a sort
\* key, a sort key with or without a date range, one date bound alone
WidgetValues ==
    { [player |-> p, event_type |-> e, start_date |-> d[1], end_date |-> d[2],
       find |-> f, sort_by |-> ""] :
        p \in PlayerEntries, e \in EventTypeChoices, d \in DateEntries,
        f \in FindEntries }
    \cup
    { [player |-> <<>>, event_type |-> <<>>, start_date |-> d[1], end_date |-> d[2],
       find |-> <<>>, sort_by |-> s] :
        d \in {<<"", "">>, <<"2024-01-03", "2024-01-05">>},
        s \in SortChoices \ {""} }
    \cup
    { [player |-> <<>>, event_type |-> <<>>, start_date |-> "2024-01-03",
       end_date |-> "", find |-> <<>>, sort_by |-> ""] }

(***************************************************************************)
(* The handlers of GuildLogAnalyzerApp.                                    *)
(***************************************************************************)
\* the part of load_file and load_from_url after the text is in hand
LoadText(d, f, w, file) ==
    IF file.parsed = <<>>
    THEN [df |-> file.parsed, filtered_df |-> f, outcome |-> "parse_failed"]
    ELSE apply_filters(file.cleaned, f, w)

Init ==
    /\ AppInit
    /\ input = <<>>
    /\ output = <<>>
    /\ pc = "mainloop"

\* load_file: the dialog is cancelled
LoadFileCancelled ==
    /\ last' = [op |-> "load_file", outcome |-> "cancelled"]
    /\ UNCHANGED <<df, filtered_df, widgets, input, output, pc>>

\* load_file: open or read raises
LoadFileReadError ==
    /\ last' = [op |-> "load_file", outcome |-> "read_error"]
    /\ UNCHANGED <<df, filtered_df, widgets, input, output, pc>>

\* load_file: the file is read
LoadFile ==
    \E file \in LoadedFiles :
        \E r \in {LoadText(df, filtered_df, widgets, file)} :
        /\ df' = r.df
        /\ filtered_df' = r.filtered_df
        /\ last' = [op |-> "load_file", outcome |-> r.outcome]
        /\ UNCHANGED <<widgets, input, output, pc>>

\* load_from_url: the URL entry is empty
LoadFromUrlNoUrl ==
    /\ last' = [op |-> "load_from_url", outcome |-> "no_url"]
    /\ UNCHANGED <<df, filtered_df, widgets, input, output, pc>>

fetch_failed_cleared(d, f) == [df |-> <<>>, filtered_df |-> <<>>]

\* load_from_url when requests.get or raise_for_status raises: the frames
\* when the except branch returns
fetch_failed(d, f) == [df |-> d, filtered_df |-> f]

\* load_from_url: the fetch fails
LoadFromUrlFetchFailed ==
    \E r \in {fetch_failed(df, filtered_df)} :
    /\ df' = r.df
    /\ filtered_df' = r.filtered_df
    /\ last' = [op |-> "load_from_url", outcome |-> "fetch_failed"]
    /\ UNCHANGED <<widgets, input, output, pc>>

\* load_from_url: the fetch succeeds
LoadFromUrl ==
    \E file \in LoadedFiles :
        \E r \in {LoadText(df, filtered_df, widgets, file)} :
        /\ df' = r.df
        /\ filtered_df' = r.filtered_df
        /\ last' = [op |-> "load_from_url", outcome |-> r.outcome]
        /\ UNCHANGED <<widgets, input, output, pc>>

\* the Apply Filters button, with the widgets holding w
ApplyFilters ==
    \E w \in WidgetValues :
        \E r \in {apply_filters(df, filtered_df, w)} :
        /\ widgets' = w
        /\ df' = r.df
        /\ filtered_df' = r.filtered_df
        /\ last' = [op |-> "apply_filters", outcome |-> r.outcome]
        /\ UNCHANGED <<input, output, pc>>

\* export_to_csv: with rows in filtered_df they are what to_csv writes, unless
\* the dialog is cancelled or to_csv raises
ExportToCsv ==
    /\ \E outcome \in (IF filtered_df = <<>> THEN {"no_data"}
                       ELSE {"written", "not_written"}) :
          last' = [op |-> "export_to_csv", outcome |-> outcome]
    /\ UNCHANGED <<df, filtered_df, widgets, input, output, pc>>

Next ==
    \/ LoadFileCancelled
    \/ LoadFileReadError
    \/ LoadFile
    \/ LoadFromUrlNoUrl
    \/ LoadFromUrlFetchFailed
    \/ LoadFromUrl
    \/ ApplyFilters
    \/ ExportToCsv

Spec == Init /\ [][Next]_vars

(***************************************************************************)
(* Properties of parse_log (checked under SpecParse).                      *)
(***************************************************************************)
Parsed == pc = "clean_data"

LineMatches(line) == LOG_PATTERN(Strip(line)).matched

SkippedLines(warnings) ==
    LET skipped == SelectSeq(warnings, LAMBDA x : x.kind = "skipped")
    IN [k \in 1..Len(skipped) |-> skipped[k].line]

\* one record per matching line of the text, in the order of the lines
RecordsOf(text) ==
    LET matching == SelectSeq(text, LineMatches)
    IN [k \in 1..Len(matching) |-> LineRecord(LOG_PATTERN(Strip(matching[k])))]

\* the lines of the text that do not match, trimmed, in the order of the lines
UnmatchedOf(text) ==
    LET unmatched == SelectSeq(text, LAMBDA l : ~LineMatches(l))
    IN [k \in 1..Len(unmatched) |-> Strip(unmatched[k])]

\* the text without the blank lines before its first and after its last
\* line that is not blank
WithoutOuterBlankLines(text) ==
    LET inked == { i \in 1..Len(text) : ~IsBlank(text[i]) }
    IN IF inked = {} THEN <<>>
       ELSE SubSeq(text, CHOOSE i \in inked : \A j \in inked : i <= j,
                         CHOOSE i \in inked : \A j \in inked : j <= i)

\* a timestamp token that is malformed: strptime does not accept it
MalformedTimestamp(t) == t \in TimestampTokens /\ StrptimeFails(t)

\* the line with a well-formed timestamp token in place of a malformed one
WithGoodTimestamp(line) ==
    [i \in 1..Len(line) |->
        IF MalformedTimestamp(line[i]) THEN "3 Jan '24 09:15pm" ELSE line[i]]

\* the timestamp token is malformed and the rest of the line is well formed
MalformedTimestampOnly(line) ==
    /\ \E i \in 1..Len(line) : MalformedTimestamp(line[i])
    /\ LineMatches(WithGoodTimestamp(line))

\* C1: every line whose timestamp token is malformed and whose ordinal,
\* separator, player name and lead-word clause are well formed yields exactly
\* one record, with an empty Timestamp and the Player and Event written on the
\* line; no such line is dropped.
C1_MalformedTimestampKept ==
    Parsed =>
        LET lines == SelectSeq(input, MalformedTimestampOnly)
            kept == SelectSeq(output.data, LAMBDA r : r.Timestamp = <<>>)
        IN /\ Len(kept) = Len(lines)
           /\ \A k \in 1..Len(lines) :
                LET m == LOG_PATTERN(Strip(WithGoodTimestamp(lines[k]))) IN
                /\ kept[k].Player = Strip(m.player)
                /\ kept[k].Event = LineRecord(m).Event

\* C7 as stated: one record per matching line of the input text, in input
\* order, and one skipped-line diagnostic per line of the input text that
\* does not match.
C7_EveryLineCounted ==
    Parsed =>
        /\ output.data = RecordsOf(input)
        /\ SkippedLines(output.warnings) = UnmatchedOf(input)

\* C7 amended: one record per matching line of the input text, in input
\* order, and one skipped-line diagnostic per non-matching line that lies
\* between the first and the last non-blank line of the text; blank lines
\* before the first and after the last non-blank line yield neither.
C7_EveryInnerLineCounted ==
    Parsed =>
        /\ output.data = RecordsOf(input)
        /\ SkippedLines(output.warnings) = UnmatchedOf(WithoutOuterBlankLines(input))

\* parse_log has run on a text where a skipped line comes before a matching
\* line and a blank line comes last
C7_Witness ==
    /\ Parsed
    /\ Len(input) = 3
    /\ ~LineMatches(input[1]) /\ ~IsBlank(input[1])
    /\ LineMatches(input[2])
    /\ IsBlank(input[3])
    /\ Len(output.data) = 1
    /\ Len(output.warnings) >= 1

\* C8: every record parse_log returns has a non-empty Player.
C8_PlayerNonEmpty ==
    pc # "parse_log" => \A k \in 1..Len(output.data) : output.data[k].Player # <<>>

(***************************************************************************)
(* Properties of categorize_event (checked under SpecCategorize).          *)
(***************************************************************************)
Categories ==
    { <<"Death">>, <<"Level", SP, "Up">>, <<"Join">>, <<"Leave">>, <<"Promotion">>,
      <<"Demotion">>, <<"Online">>, <<"Other">> }

\* the rules in their priority order
RuleLabels ==
    << <<"Death">>, <<"Level", SP, "Up">>, <<"Join">>, <<"Leave">>, <<"Promotion">>,
       <<"Demotion">>, <<"Online">>, <<"Other">> >>

RuleMatches(n, e) ==
    CASE n = 1 -> \/ Contains(e, Words(<<"has", "died", "at", "level">>))
                  \/ Contains(e, Words(<<"has", "died">>))
                  \/ (Contains(e, Words(<<"has", "Left", "the", "guild">>))
                      /\ Contains(e, <<"[D]">>))
      [] n = 2 -> Contains(e, Words(<<"Leveled", "to">>))
      [] n = 3 -> \/ Contains(e, Words(<<"JOINED", "the", "guild">>))
                  \/ Contains(e, Words(<<"has", "JOINED", "the", "guild">>))
      [] n = 4 -> \/ Contains(e, Words(<<"Left", "the", "guild">>))
                  \/ Contains(e, Words(<<"is", "no", "longer", "in", "the", "Guild">>))
      [] n = 5 -> Contains(e, <<"PROMOTED">>)
      [] n = 6 -> Contains(e, <<"DEMOTED">>)
      [] n = 7 -> Contains(e, Words(<<"Come", "ONLINE", "after", "being", "INACTIVE">>))
      [] OTHER -> TRUE

\* C4: every event string gets exactly one category, that of the first rule
\* in the order Death, Level Up, Join, Leave, Promotion, Demotion, Online,
\* Other that matches it; "has died" with "Leveled to" is Death, and
\* "has Left the guild" with "[D]" is Death, not Leave.
C4_FirstMatchWins ==
    pc = "done" =>
        /\ output \in Categories
        /\ \E n \in 1..Len(RuleLabels) :
              /\ RuleMatches(n, input)
              /\ \A k \in 1..(n - 1) : ~RuleMatches(k, input)
              /\ output = RuleLabels[n]
        /\ (Contains(input, Words(<<"has", "died">>))
            /\ Contains(input, Words(<<"Leveled", "to">>))) => output = <<"Death">>
        /\ (Contains(input, Words(<<"has", "Left", "the", "guild">>))
            /\ Contains(input, <<"[D]">>)) => output = <<"Death">>

\* an event string that holds "has died" and "Leveled to" has been classified
C4_Witness ==
    /\ pc = "done"
    /\ Contains(input, Words(<<"has", "died">>))
    /\ Contains(input, Words(<<"Leveled", "to">>))
    /\ output = <<"Death">>

(***************************************************************************)
(* Properties of the application (checked under Spec).                     *)
(***************************************************************************)
\* the row of a view that comes from row r of self.df: r itself, or r with
\* its Timestamp as a datetime
SameRecord(v, r) == v = r \/ v = [r EXCEPT !.Timestamp = ToDatetime(@)]

\* C2: a call of apply_filters that ends in a usage error (bad dates, bad
\* sort key) leaves filtered_df exactly as it was before the call.
C2_UsageErrorKeepsView ==
    [][(last'.op = "apply_filters" /\ last'.outcome \in {"bad_date", "bad_sort"})
          => filtered_df' = filtered_df]_vars

\* C3: a load_from_url that fails at the fetch leaves df and filtered_df as
\* they were.
C3_FetchFailureKeepsState ==
    [][(last'.op = "load_from_url" /\ last'.outcome = "fetch_failed")
          => (df' = df /\ filtered_df' = filtered_df)]_vars

\* a fetch has failed after a load and a filter application had left rows in
\* df and fewer rows in filtered_df
C3_Witness ==
    /\ last = [op |-> "load_from_url", outcome |-> "fetch_failed"]
    /\ filtered_df # <<>>
    /\ Len(filtered_df) < Len(df)

DateFilterActive(w) == w.start_date # "" /\ w.end_date # ""

\* row r of self.df passes the player, event type and find criteria of w
PassesOtherCriteria(r, w) ==
    LET shown == IF DateFilterActive(w) THEN [r EXCEPT !.Timestamp = ToDatetime(@)] ELSE r
    IN /\ w.player = <<>> \/ ContainsNoCase(r.Player, w.player)
       /\ w.event_type = <<>> \/ ContainsNoCase(r.EventType, w.event_type)
       /\ w.find = <<>>
            \/ \E k \in 1..Len(RowText(shown)) : ContainsNoCase(RowText(shown)[k], w.find)

\* the calendar day of row r lies between the start and the end date of w
DayInRange(r, w) ==
    /\ r.Timestamp # <<>>
    /\ ~NumSeqLess(SubSeq(r.Timestamp, 1, 3), DateFields(w.start_date))
    /\ ~NumSeqLess(DateFields(w.end_date), SubSeq(r.Timestamp, 1, 3))

\* C5: with both dates supplied, a record that passes the other criteria is
\* kept if and only if its timestamp is not null and its calendar day d
\* satisfies startDate <= d <= endDate; with fewer than two dates supplied no
\* record is excluded on date grounds.
C5_DateRangeInclusive ==
    last.outcome = "displayed" =>
        \A i \in 1..Len(df) :
            (\E j \in 1..Len(filtered_df) : SameRecord(filtered_df[j], df[i]))
                <=> /\ PassesOtherCriteria(df[i], widgets)
                    /\ DateFilterActive(widgets) => DayInRange(df[i], widgets)

\* the value of the sort key of a row of the view is null
NullSortKey(v, by) ==
    CASE by = "Timestamp" -> v.Timestamp = <<>> \/ v.Timestamp = NaT
      [] by = "Level" -> v.Level = NoLevel
      [] OTHER -> FALSE

\* a comes no later than b in ascending order of the key: by time for
\* Timestamp, by value for Level, as strings for Player and Event Type
Ascending(a, b, by) ==
    CASE by = "Timestamp" ->
            ~NumSeqLess(SubSeq(ToDatetime(b.Timestamp), 1, 6),
                        SubSeq(ToDatetime(a.Timestamp), 1, 6))
      [] by = "Level" -> a.Level <= b.Level
      [] by = "Player" -> ~NumSeqLess(TextKey(b.Player), TextKey(a.Player))
      [] by = "Event Type" -> ~NumSeqLess(TextKey(b.EventType), TextKey(a.EventType))

\* C6: for every valid sort key the view apply_filters produces is in
\* ascending order of the key, rows whose key is null after all others; for
\* Timestamp ascending is chronological.
C6_SortedNullsLast ==
    (last.outcome = "displayed" /\ widgets.sort_by # "") =>
        \A i, j \in 1..Len(filtered_df) :
            i < j =>
                /\ NullSortKey(filtered_df[i], widgets.sort_by)
                      => NullSortKey(filtered_df[j], widgets.sort_by)
                /\ (~NullSortKey(filtered_df[i], widgets.sort_by)
                    /\ ~NullSortKey(filtered_df[j], widgets.sort_by))
                      => Ascending(filtered_df[i], filtered_df[j], widgets.sort_by)

\* C9: apply_filters leaves df as it was, and applied a second time in a row
\* with the same widget values it leaves filtered_df as the first time.
C9_IdempotentSourceUntouched ==
    [][last'.op = "apply_filters"
          => /\ df' = df
             /\ (last.op = "apply_filters" /\ widgets' = widgets)
                   => filtered_df' = filtered_df]_vars

\* apply_filters has run with a date filter on loaded rows and kept some
C9_Witness ==
    /\ last = [op |-> "apply_filters", outcome |-> "displayed"]
    /\ DateFilterActive(widgets)
    /\ df # <<>>
    /\ filtered_df # <<>>
    /\ Len(filtered_df) < Len(df)

\* C10: every row of filtered_df is a row of the df currently loaded.
C10_ViewWithinLoaded ==
    \A i \in 1..Len(filtered_df) :
        \E j \in 1..Len(df) : SameRecord(filtered_df[i], df[j])

====
